---- MODULE Spec2Model ----
(***************************************************************************)
(* A model of src/process_contacts.py (class ContactProcessor): the field  *)
(* normalizers, the quality score, the extractor, the duplicate detector,  *)
(* the classifier and the orchestrator process_all_files.                  *)
(*                                                                         *)
(* Strings are sequences of one-character strings, so that strip, split,   *)
(* slicing, lower() and the regular expressions are computed character by  *)
(* character as Python computes them.  A missing cell (pandas NaN) is the  *)
(* value NaN.                                                              *)
(***************************************************************************)
EXTENDS Integers, Sequences, FiniteSets, TLC

(***************************************************************************)
(* Characters and Python string primitives.                                *)
(***************************************************************************)
NaN == <<"NaN">>

Whitespace == {" ", "\t", "\n"}

Digits == {"0", "1", "2", "3", "4", "5", "6", "7", "8", "9"}

UpperCase ==
    <<"A", "B", "C", "D", "E", "F", "G", "H", "I", "J", "K", "L", "M",
      "N", "O", "P", "Q", "R", "S", "T", "U", "V", "W", "X", "Y", "Z">>

LowerCase ==
    <<"a", "b", "c", "d", "e", "f", "g", "h", "i", "j", "k", "l", "m",
      "n", "o", "p", "q", "r", "s", "t", "u", "v", "w", "x", "y", "z">>

Range(s) == {s[i] : i \in DOMAIN s}

Letters == Range(UpperCase) \cup Range(LowerCase)

Min(a, b) == IF a <= b THEN a ELSE b

\* s[:n]
Slice(s, n) == SubSeq(s, 1, Min(n, Len(s)))

\* s[-n:]
Tail_n(s, n) == SubSeq(s, Len(s) - Min(n, Len(s)) + 1, Len(s))

\* str.lower() on one character
lower_char(c) ==
    IF c \in Range(UpperCase)
    THEN LowerCase[CHOOSE i \in DOMAIN UpperCase : UpperCase[i] = c]
    ELSE c

\* str.lower()
lower(s) == [i \in DOMAIN s |-> lower_char(s[i])]

\* str.strip(): the longest substring with no whitespace at either edge
strip(s) ==
    LET idx == {i \in DOMAIN s : s[i] \notin Whitespace}
    IN  IF idx = {} THEN <<>>
        ELSE LET lo == CHOOSE i \in idx : \A j \in idx : i <= j
                 hi == CHOOSE i \in idx : \A j \in idx : j <= i
             IN  SubSeq(s, lo, hi)

\* the positions where the separator ':::' starts
SepAt(s, i) ==
    /\ i + 2 <= Len(s)
    /\ s[i] = ":" /\ s[i + 1] = ":" /\ s[i + 2] = ":"

\* str.split(':::'): non-overlapping separators, found left to right
RECURSIVE split(_)
split(s) ==
    LET hits == {i \in DOMAIN s : SepAt(s, i)}
    IN  IF hits = {} THEN <<s>>
        ELSE LET i == CHOOSE h \in hits : \A g \in hits : h <= g
             IN  <<SubSeq(s, 1, i - 1)>> \o split(SubSeq(s, i + 3, Len(s)))

\* re.sub(r'[^\d+\-\(\)\s]', '', s)
PhoneChars == Digits \cup {"+", "-", "(", ")"} \cup Whitespace

sub_phone(s) == SelectSeq(s, LAMBDA c : c \in PhoneChars)

\* re.sub(r'[\D]', '', s)
sub_digits(s) == SelectSeq(s, LAMBDA c : c \in Digits)

\* re.match(r'^[a-zA-Z0-9._%+-]+@[a-zA-Z0-9.-]+\.[a-zA-Z]{2,}$', e)
LocalChars == Letters \cup Digits \cup {".", "_", "%", "+", "-"}

DomainChars == Letters \cup Digits \cup {".", "-"}

AllIn(s, lo, hi, S) == \A k \in lo..hi : s[k] \in S

match_email(e) ==
    \* a final newline is accepted by '$'; the body before it must match
    LET n == IF Len(e) > 0 /\ e[Len(e)] = "\n" THEN {Len(e), Len(e) - 1}
             ELSE {Len(e)}
    IN  \E m \in n :
        \E at \in {i \in 2..m : e[i] = "@"} :
        \E dot \in {j \in (at + 2)..(m - 2) : e[j] = "."} :
            /\ AllIn(e, 1, at - 1, LocalChars)
            /\ AllIn(e, at + 1, dot - 1, DomainChars)
            /\ AllIn(e, dot + 1, m, Letters)

(***************************************************************************)
(* Field normalizers.                                                      *)
(***************************************************************************)
TextCap == 500

PhoneCap == 20

isna(x) == x = NaN

clean_text(text) ==
    IF isna(text) THEN <<>> ELSE Slice(strip(text), TextCap)

clean_email(email) ==
    IF isna(email) \/ email = <<>> THEN <<>>
    ELSE LET emails == split(email)
             ok == {i \in DOMAIN emails : match_email(strip(emails[i]))}
         IN  IF ok = {} THEN <<>>
             ELSE strip(emails[CHOOSE i \in ok : \A j \in ok : i <= j])

clean_phone(phone) ==
    IF isna(phone) \/ phone = <<>> THEN <<>>
    ELSE Slice(sub_phone(strip(split(phone)[1])), PhoneCap)

clean_url(url) ==
    IF isna(url) \/ url = <<>> THEN <<>> ELSE Slice(strip(url), TextCap)

(***************************************************************************)
(* Raw rows and contact records.                                           *)
(***************************************************************************)
\* row.get(col, ''): a column the file does not have reads as ''
row_get(row, col) == IF col \in DOMAIN row THEN row[col] ELSE <<>>

present(s) == s # <<>>

\* The rounding of the binary64 sums score += 0.4 | 0.2 | 0.3, += 0.3,
\* += 0.1, += 0.15, += 0.05 (in that order), in units of 2^-56, relative to
\* the double nearest the exact decimal sum.  n is the name bonus in
\* hundredths, e, p, o, w are 1 when that addend is applied.
FloatRounding(n, e, p, o, w) ==
    LET t == <<n, e, p, o, w>>
    IN  CASE t = <<0, 0, 1, 0, 1>> -> 2
          [] t = <<20, 0, 0, 1, 1>> -> 0 - 4
          [] t = <<20, 0, 1, 0, 0>> -> 4
          [] t = <<20, 0, 1, 0, 1>> -> 4
          [] t = <<20, 0, 1, 1, 0>> -> 4
          [] t = <<20, 0, 1, 1, 1>> -> 8
          [] t = <<20, 1, 0, 1, 1>> -> 8
          [] t = <<30, 0, 0, 1, 0>> -> 0 - 4
          [] t = <<30, 0, 0, 1, 1>> -> 0 - 4
          [] t = <<30, 0, 1, 1, 1>> -> 8
          [] t = <<40, 0, 0, 1, 1>> -> 8
          [] t = <<40, 0, 1, 1, 1>> -> 8
          [] t = <<40, 1, 1, 0, 0>> -> 0 - 8
          [] OTHER -> 0

\* A score is a binary64 value; it is held as 100 * (hundredths) + rounding,
\* which orders the values exactly as the doubles are ordered.
calculate_quality_score(contact) ==
    LET n == IF present(contact.first_name) /\ present(contact.last_name) THEN 40
             ELSE IF present(contact.first_name) \/ present(contact.last_name) THEN 20
             ELSE IF present(contact.organization) THEN 30
             ELSE 0
        e == IF present(contact.email_1) THEN 1 ELSE 0
        p == IF present(contact.phone_1) THEN 1 ELSE 0
        o == IF present(contact.organization) THEN 1 ELSE 0
        w == IF present(contact.website) THEN 1 ELSE 0
        score == 100 * (n + 30 * e + 10 * p + 15 * o + 5 * w)
                    + FloatRounding(n, e, p, o, w)
    IN  Min(10000, score)

\* quality_score >= 0.3
MinQuality == 3000

\* the body of the loop of extract_contact_data, up to the score
extract_row(row) ==
    LET fields ==
          [first_name   |-> clean_text(row_get(row, "First Name")),
           middle_name  |-> clean_text(row_get(row, "Middle Name")),
           last_name    |-> clean_text(row_get(row, "Last Name")),
           nickname     |-> clean_text(row_get(row, "Nickname")),
           organization |-> clean_text(row_get(row, "Organization Name")),
           title        |-> clean_text(row_get(row, "Organization Title")),
           email_1      |-> clean_email(row_get(row, "E-mail 1 - Value")),
           email_2      |-> clean_email(row_get(row, "E-mail 2 - Value")),
           phone_1      |-> clean_phone(row_get(row, "Phone 1 - Value")),
           phone_2      |-> clean_phone(row_get(row, "Phone 2 - Value")),
           website      |-> clean_url(row_get(row, "Website 1 - Value"))]
    IN  fields @@ [quality_score |-> calculate_quality_score(fields)]

\* a variant with the threshold at 0.2
accepted_at_20(contact) == contact.quality_score >= 2000

\* if contact['quality_score'] >= 0.3: contacts.append(contact)
accepted(contact) == contact.quality_score >= MinQuality

RECURSIVE extract_contact_data(_)
extract_contact_data(df) ==
    IF df = <<>> THEN <<>>
    ELSE LET contact == extract_row(Head(df))
         IN  (IF accepted(contact) THEN <<contact>> ELSE <<>>)
                 \o extract_contact_data(Tail(df))

(***************************************************************************)
(* Classification.                                                         *)
(***************************************************************************)
Str_gmail == <<"g", "m", "a", "i", "l", ".", "c", "o", "m">>
Str_yahoo == <<"y", "a", "h", "o", "o", ".", "c", "o", "m">>
Str_hotmail == <<"h", "o", "t", "m", "a", "i", "l", ".", "c", "o", "m">>
Str_outlook == <<"o", "u", "t", "l", "o", "o", "k", ".", "c", "o", "m">>
Str_icloud == <<"i", "c", "l", "o", "u", "d", ".", "c", "o", "m">>
Str_aol == <<"a", "o", "l", ".", "c", "o", "m">>
Str_live == <<"l", "i", "v", "e", ".", "c", "o", "m">>

business_domains ==
    {Str_gmail, Str_yahoo, Str_hotmail, Str_outlook, Str_icloud, Str_aol, Str_live}

\* email.split('@')[-1] if '@' in email else ''
domain_of(email) ==
    LET ats == {i \in DOMAIN email : email[i] = "@"}
    IN  IF ats = {} THEN <<>>
        ELSE SubSeq(email, (CHOOSE i \in ats : \A j \in ats : j <= i) + 1, Len(email))

\* a variant that does not lower-case
classify_email_raw(contact) == contact.email_1

\* the string the domain test is made on: contact['email_1'].lower()
classify_email(contact) == lower(contact.email_1)

classify_contact(contact) ==
    LET email == classify_email(contact)
        domain == domain_of(email)
    IN  IF present(contact.organization) /\ present(strip(contact.organization))
        THEN "business"
        ELSE IF present(contact.title) /\ present(strip(contact.title))
        THEN "business"
        ELSE IF present(email) /\ domain \in business_domains
        THEN "personal"
        ELSE IF present(email) /\ present(domain) /\ domain \notin business_domains
        THEN "business"
        ELSE "other"

(***************************************************************************)
(* Duplicate detection.                                                    *)
(***************************************************************************)
Str_email == <<"e", "m", "a", "i", "l", ":">>
Str_phone == <<"p", "h", "o", "n", "e", ":">>
Str_name == <<"n", "a", "m", "e", ":">>

\* the phone key needs len(normalized_phone) >= 10 and keeps the last 10 digits
PhoneKeyDigits == 10

\* key_parts of one contact, in the order email, phone, name
key_parts(contact) ==
    LET normalized_phone == sub_digits(contact.phone_1)
    IN  (IF present(contact.email_1)
         THEN <<Str_email \o lower(contact.email_1)>> ELSE <<>>)
        \o (IF present(contact.phone_1) /\ Len(normalized_phone) >= PhoneKeyDigits
            THEN <<Str_phone \o Tail_n(normalized_phone, PhoneKeyDigits)>> ELSE <<>>)
        \o (IF present(contact.first_name) /\ present(contact.last_name)
            THEN <<Str_name \o lower(contact.first_name) \o <<":">>
                     \o lower(contact.last_name)>>
            ELSE <<>>)

\* a variant that overwrites the slot of existing_contact
replace_in_place(deduplicated, existing_contact, contact) ==
    [i \in DOMAIN deduplicated |->
        IF deduplicated[i] = existing_contact THEN contact ELSE deduplicated[i]]

\* deduplicated = [c for c in deduplicated if c != existing_contact]
\* ... deduplicated.append(contact)
replace_existing(deduplicated, existing_contact, contact) ==
    Append(SelectSeq(deduplicated, LAMBDA c : c # existing_contact), contact)

\* for existing_key in [k for k, v in seen_contacts.items() if v == existing_contact]:
\*     seen_contacts[existing_key] = contact
repoint_keys(seen_contacts, existing_contact, contact) ==
    [k \in DOMAIN seen_contacts |->
        IF seen_contacts[k] = existing_contact THEN contact ELSE seen_contacts[k]]

\* the body of 'if key_part in seen_contacts:' for one matching key
on_match(st, key_part, contact) ==
    LET existing_contact == st.seen_contacts[key_part]
        higher == contact.quality_score > existing_contact.quality_score
    IN  [seen_contacts |->
            IF higher THEN repoint_keys(st.seen_contacts, existing_contact, contact)
            ELSE st.seen_contacts,
         deduplicated |->
            IF higher THEN replace_existing(st.deduplicated, existing_contact, contact)
            ELSE st.deduplicated,
         duplicates_removed |-> st.duplicates_removed + 1,
         duplicate_found |-> TRUE]

\* a variant without the break: every matching key is handled
RECURSIVE check_keys_no_break(_, _, _, _)
check_keys_no_break(st, kp, i, contact) ==
    IF i > Len(kp) THEN st
    ELSE IF kp[i] \in DOMAIN st.seen_contacts
         THEN check_keys_no_break(on_match(st, kp[i], contact), kp, i + 1, contact)
         ELSE check_keys_no_break(st, kp, i + 1, contact)

\* 'for key_part in key_parts:' from position i, leaving at the first match
RECURSIVE check_keys(_, _, _, _)
check_keys(st, kp, i, contact) ==
    IF i > Len(kp) THEN st
    ELSE IF kp[i] \in DOMAIN st.seen_contacts
         THEN on_match(st, kp[i], contact)
         ELSE check_keys(st, kp, i + 1, contact)

\* 'if not duplicate_found:' register every key and append
register_new(st, kp, contact) ==
    [st EXCEPT
        !.seen_contacts =
            [k \in DOMAIN st.seen_contacts \cup Range(kp) |->
                IF k \in Range(kp) THEN contact ELSE st.seen_contacts[k]],
        !.deduplicated = Append(@, contact)]

\* one iteration of 'for contact in contacts:'
detect_one(st, contact) ==
    LET kp == key_parts(contact)
        s0 == [st EXCEPT !.duplicate_found = FALSE]
    IN  IF kp = <<>>
        THEN [s0 EXCEPT !.deduplicated = Append(@, contact)]
        ELSE LET s1 == check_keys(s0, kp, 1, contact)
             IN  IF s1.duplicate_found THEN s1 ELSE register_new(s1, kp, contact)

EmptyMap == [k \in {} |-> <<>>]

\* the loop of detect_duplicates over contacts[i..]
RECURSIVE detect_loop(_, _, _)
detect_loop(st, contacts, i) ==
    IF i > Len(contacts) THEN st
    ELSE detect_loop(detect_one(st, contacts[i]), contacts, i + 1)

\* detect_duplicates(contacts) with self.stats['duplicates_removed'] = removed
\* on entry
detect_duplicates(contacts, removed) ==
    detect_loop([seen_contacts |-> EmptyMap, deduplicated |-> <<>>,
                 duplicates_removed |-> removed, duplicate_found |-> FALSE],
                contacts, 1)

(***************************************************************************)
(* Inputs: the raw rows the files hold, the file names and the values      *)
(* datetime.now().isoformat() returns.                                     *)
(***************************************************************************)
\* Bounds: files per call, rows per file, records counted by total_processed
\* over the life of the processor, calls of process_all_files, and records
\* given to detect_duplicates on its own.
MaxFiles == 2
MaxFileRows == 2
MaxTotal == 2
MaxRuns == 2
MaxInput == 5

row_names == [c \in {"First Name", "Last Name", "Nickname"} |->
    CASE c = "First Name" -> <<"J", "o">> [] c = "Last Name" -> <<"L", "i">> [] OTHER -> NaN]

row_email == [c \in {"First Name", "E-mail 1 - Value"} |->
    CASE c = "E-mail 1 - Value" -> <<" ", "j", "@", "x", ".", "i", "o", " ">> [] OTHER -> NaN]

row_both == [c \in {"First Name", "Last Name", "E-mail 1 - Value"} |->
    CASE c = "First Name" -> <<"J", "o">> [] c = "Last Name" -> <<"L", "i">>
      [] OTHER -> <<"J", "@", "X", ".", "i", "o">>]

row_full == [c \in {"First Name", "Last Name", "E-mail 1 - Value", "Phone 1 - Value"} |->
    CASE c = "First Name" -> <<" ", "j", "o">> [] c = "Last Name" -> <<"L", "I", " ">>
      [] c = "E-mail 1 - Value" -> <<"b", "a", "d", " ", ":", ":", ":", " ", "j", "@", "x", ".", "i", "o", ":", ":", ":", "k", "@", "y", ".", "o", "r", "g">>
      [] OTHER -> <<"(", "5", "5", "5", ")", " ", "1", "2", "3", "-", "4", "5", "6", "7", " ", ":", ":", ":", " ", "9", "9", "9">>]

row_org == [c \in {"Organization Name", "E-mail 1 - Value"} |->
    CASE c = "Organization Name" -> <<"A", "c", "m", "e">> [] OTHER -> <<"b", "a", "d">>]

row_gmail == [c \in {"First Name", "E-mail 1 - Value"} |->
    CASE c = "First Name" -> <<"A", "l">> [] OTHER -> <<"a", "l", "@", "G", "m", "a", "i", "l", ".", "c", "o", "m">>]

row_title == [c \in {"Last Name", "Organization Title", "Phone 1 - Value"} |->
    CASE c = "Last Name" -> <<"L", "i">> [] c = "Organization Title" -> <<"C", "E", "O">>
      [] OTHER -> <<"+", "1", " ", "5", "5", "5", "-", "1", "2", "3", "-", "4", "5", "6", "7">>]

row_low == [c \in {"First Name", "Phone 1 - Value"} |->
    CASE c = "First Name" -> NaN [] OTHER -> <<"5", "5", "5">>]

row_bad == [c \in {"First Name", "E-mail 1 - Value"} |->
    CASE c = "First Name" -> <<" ", "A", "l", " ">> [] OTHER -> <<"b", "a", "d">>]

\* a row of a file that has none of the recognized columns
row_unrecognized == [c \in {"Notes"} |-> <<"J", "o">>]

RecognizedRows ==
    {row_names, row_email, row_both, row_full, row_org, row_gmail, row_title,
     row_low, row_bad}

\* Path(file_path).name of the entries of file_paths
FileNames == <<"contacts.csv", "contacts (1).csv", "contacts (2).csv",
               "contacts (3).csv", "contacts (4).csv">>

\* datetime.now().isoformat(): the clock is coarse, so the records of one
\* batch get the same value
Timestamps == {"2026-01-01T00:00:00.000000"}

RECURSIVE SeqsUpTo(_, _)
SeqsUpTo(S, n) ==
    IF n = 0 THEN {<<>>}
    ELSE LET shorter == SeqsUpTo(S, n - 1)
         IN  shorter \cup {Append(q, x) : q \in {r \in shorter : Len(r) = n - 1}, x \in S}

\* the rows of one file: all with recognized columns, or all without
DataFrames ==
    SeqsUpTo(RecognizedRows, MaxFileRows) \cup SeqsUpTo({row_unrecognized}, MaxFileRows)

\* A file: the rows it holds, and what reading it does ("ok": both reads
\* succeed; "unparseable": pd.read_csv raises in validate_csv_structure;
\* "read_error": the read inside the try block of process_all_files raises).
Files ==
    [kind : {"ok"}, df : DataFrames]
        \cup [kind : {"unparseable", "read_error"}, df : SeqsUpTo(RecognizedRows, 1)]

(***************************************************************************)
(* State.                                                                  *)
(***************************************************************************)
VARIABLES
    stats,            \* self.stats
    pc,               \* where process_all_files is: "idle", "files", "classify"
    run,              \* how many times process_all_files has been called
    entry_stats,      \* self.stats as it was when the current call began
    n_files,          \* len(file_paths)
    file_idx,         \* the position of 'for file_path in file_paths'
    last_file,        \* what the file of the last iteration was like
    skipped,          \* how many files of this call were unusable
    contacts,         \* the list extract_contact_data returned last
    all_contacts,     \* all_contacts of process_all_files
    seen_contacts,    \* seen_contacts of detect_duplicates
    deduplicated,     \* deduplicated of detect_duplicates
    returned,         \* what process_all_files returned last
    contact,          \* the loop variable of detect_duplicates
    len_contacts,     \* how many records detect_duplicates has consumed
    pass,             \* 1: detect_duplicates on the input, 2: on its own output
    rerun,            \* the result of detect_duplicates on its own output
    groups,           \* the duplicate groups of the records consumed so far
    clean_fn,         \* the normalizer applied last
    clean_in,         \* its argument
    clean_out,        \* its result
    clean_pass        \* 0: none yet, 1: applied to an input, 2: to its own result

vars ==
    <<stats, pc, run, entry_stats, n_files, file_idx, last_file, skipped,
      contacts, all_contacts, seen_contacts, deduplicated, returned, contact, len_contacts,
      pass, rerun, groups, clean_fn, clean_in, clean_out, clean_pass>>

pipeVars == <<pc, run, entry_stats, n_files, file_idx, last_file, skipped,
              contacts, all_contacts, returned>>

dedupVars == <<contact, len_contacts, pass, rerun, groups>>

cleanVars == <<clean_fn, clean_in, clean_out, clean_pass>>

NoContact == [quality_score |-> 0]

\* ContactProcessor.__init__
Init ==
    /\ stats = [total_processed |-> 0, duplicates_removed |-> 0,
                business_contacts |-> 0, personal_contacts |-> 0,
                quality_issues |-> 0]
    /\ pc = "idle"
    /\ run = 0
    /\ entry_stats = stats
    /\ n_files = 0
    /\ file_idx = 0
    /\ last_file = "none"
    /\ skipped = 0
    /\ contacts = <<>>
    /\ all_contacts = <<>>
    /\ seen_contacts = EmptyMap
    /\ deduplicated = <<>>
    /\ returned = <<>>
    /\ contact = NoContact
    /\ len_contacts = 0
    /\ pass = 1
    /\ rerun = [deduplicated |-> <<>>, duplicates_removed |-> 0]
    /\ groups = {}
    /\ clean_fn = "none"
    /\ clean_in = <<>>
    /\ clean_out = <<>>
    /\ clean_pass = 0

(***************************************************************************)
(* process_all_files.                                                      *)
(***************************************************************************)
\* a variant that reports every file valid
validate_always(file) == TRUE

\* validate_csv_structure(file_path)['valid']
validate_csv_structure(file) ==
    IF file.kind = "unparseable" THEN FALSE     \* except Exception
    ELSE Len(file.df) # 0                       \* validation['rows'] == 0

\* whether the read inside the try block raises
read_raises(file) == file.kind = "read_error"

\* what a file is, whatever the code does with it
file_class(file) ==
    IF file.kind = "unparseable" \/ file.df = <<>> THEN "invalid"
    ELSE IF file.kind = "read_error" THEN "read_error"
    ELSE IF \A i \in DOMAIN file.df : file.df[i] = row_unrecognized THEN "no_columns"
    ELSE "ok"

\* contact['source_file'] = ...; contact['processed_date'] = ...
tag(cs, name, dates) ==
    [i \in DOMAIN cs |-> cs[i] @@ [source_file |-> name, processed_date |-> dates[i]]]

\* whether the iteration reaches all_contacts.extend(contacts): the file is
\* reported valid (else 'continue') and the try block does not raise
file_is_read(file) == validate_csv_structure(file) /\ ~read_raises(file)

\* contacts, extracted and tagged, of a file that is read
file_contacts(file, name, dates) ==
    LET cs == extract_contact_data(file.df)
    IN  tag(cs, name, [i \in DOMAIN cs |-> dates[i]])

\* self.stats['total_processed'] += len(contacts)
add_total_processed(total, cs) == total + Len(cs)

\* the call of process_all_files: all_contacts = []
Call ==
    /\ pc = "idle"
    /\ run < MaxRuns
    /\ \E n \in 0..MaxFiles : n_files' = n
    /\ pc' = "files"
    /\ run' = run + 1
    /\ entry_stats' = stats
    /\ file_idx' = 1
    /\ all_contacts' = <<>>
    /\ last_file' = "none"
    /\ skipped' = 0
    /\ contacts' = <<>>
    /\ seen_contacts' = EmptyMap
    /\ deduplicated' = <<>>
    /\ returned' = <<>>
    /\ UNCHANGED stats
    /\ UNCHANGED dedupVars /\ UNCHANGED cleanVars

\* one iteration of 'for file_path in file_paths:'
LoadFile ==
    /\ pc = "files"
    /\ file_idx <= n_files
    /\ \E file \in Files, name \in {FileNames[file_idx]} :
         /\ stats.total_processed + Len(file.df) <= MaxTotal
         /\ \E dates \in [1..Len(file.df) -> Timestamps] :
              IF file_is_read(file)
              THEN LET cs == file_contacts(file, name, dates)
                   IN  /\ contacts' = cs
                       /\ all_contacts' = all_contacts \o cs
                       /\ stats' = [stats EXCEPT
                                       !.total_processed = add_total_processed(@, cs)]
              ELSE UNCHANGED <<contacts, all_contacts, stats>>
         /\ last_file' = file_class(file)
         /\ skipped' = skipped + (IF file_class(file) = "ok" THEN 0 ELSE 1)
    /\ file_idx' = file_idx + 1
    /\ UNCHANGED <<pc, run, entry_stats, n_files, seen_contacts, deduplicated, returned>>
    /\ UNCHANGED dedupVars /\ UNCHANGED cleanVars

\* deduplicated_contacts = self.detect_duplicates(all_contacts)
Deduplicate ==
    /\ pc = "files"
    /\ file_idx > n_files
    /\ LET r == detect_duplicates(all_contacts, stats.duplicates_removed)
       IN  /\ seen_contacts' = r.seen_contacts
           /\ deduplicated' = r.deduplicated
           /\ stats' = [stats EXCEPT !.duplicates_removed = r.duplicates_removed]
    /\ pc' = "classify"
    /\ UNCHANGED <<run, entry_stats, n_files, file_idx, last_file, skipped,
                   contacts, all_contacts, returned>>
    /\ UNCHANGED dedupVars /\ UNCHANGED cleanVars

Count(s, P(_)) == Cardinality({i \in DOMAIN s : P(s[i])})

\* the classification loop, and the return
Classify ==
    /\ pc = "classify"
    /\ LET out == [i \in DOMAIN deduplicated |->
                      deduplicated[i] @@
                          [classification |-> classify_contact(deduplicated[i])]]
       IN  /\ returned' = out
           /\ stats' = [stats EXCEPT
                 !.business_contacts =
                     @ + Count(out, LAMBDA c : c.classification = "business"),
                 !.personal_contacts =
                     @ + Count(out, LAMBDA c : c.classification = "personal")]
    /\ pc' = "idle"
    /\ UNCHANGED <<run, entry_stats, n_files, file_idx, last_file, skipped,
                   contacts, all_contacts, seen_contacts, deduplicated>>
    /\ UNCHANGED dedupVars /\ UNCHANGED cleanVars

Next == Call \/ LoadFile \/ Deduplicate \/ Classify

Spec == Init /\ [][Next]_vars

(***************************************************************************)
(* detect_duplicates on its own: the list it is given is any list of       *)
(* accepted, tagged records, consumed one record at a time.                *)
(***************************************************************************)
InputRows == {row_names, row_email, row_both, row_full, row_org, row_gmail}

\* the records of the first file, and one record of a second file whose row
\* is also in the first (equal in every field but source_file)
InputContacts ==
    {extract_row(r) @@ [source_file |-> FileNames[1], processed_date |-> t] :
        r \in {q \in InputRows : accepted(extract_row(q))}, t \in Timestamps}
    \cup
    {extract_row(row_both) @@ [source_file |-> FileNames[2], processed_date |-> t] :
        t \in Timestamps}

RECURSIVE SumSizes(_)
SumSizes(gs) ==
    IF gs = {} THEN 0
    ELSE LET g == CHOOSE x \in gs : TRUE IN g.size + SumSizes(gs \ {g})

\* The duplicate groups (records sharing an identity key, transitively) after
\* one more record: the groups its keys touch merge into one, whose best
\* record is the highest-scored, the earliest-seen among equal scores; pos is
\* the position of the best record in the input, size the number of records.
merge_groups(gs, c, pos) ==
    LET K == Range(key_parts(c))
        touched == {g \in gs : g.keys \cap K # {}}
        cands == {[best |-> g.best, pos |-> g.pos] : g \in touched}
                     \cup {[best |-> c, pos |-> pos]}
        top == CHOOSE x \in cands : \A y \in cands :
                   \/ x.best.quality_score > y.best.quality_score
                   \/ /\ x.best.quality_score = y.best.quality_score
                      /\ x.pos <= y.pos
    IN  IF K = {} THEN gs
        ELSE (gs \ touched) \cup
               {[keys |-> K \cup UNION {g.keys : g \in touched},
                 best |-> top.best, pos |-> top.pos,
                 size |-> 1 + SumSizes(touched)]}

\* one iteration of the loop of detect_duplicates
DetectOne ==
    /\ pass = 1
    /\ len_contacts < MaxInput
    /\ \E c \in InputContacts :
         LET st == [seen_contacts |-> seen_contacts, deduplicated |-> deduplicated,
                    duplicates_removed |-> stats.duplicates_removed,
                    duplicate_found |-> FALSE]
             s2 == detect_one(st, c)
         IN  /\ contact' = c
             /\ seen_contacts' = s2.seen_contacts
             /\ deduplicated' = s2.deduplicated
             /\ stats' = [stats EXCEPT !.duplicates_removed = s2.duplicates_removed]
             /\ groups' = merge_groups(groups, c, len_contacts + 1)
    /\ len_contacts' = len_contacts + 1
    /\ UNCHANGED <<pass, rerun>>
    /\ UNCHANGED pipeVars /\ UNCHANGED cleanVars

\* detect_duplicates applied to the list it has just returned
DetectAgain ==
    /\ pass = 1
    /\ LET r == detect_duplicates(deduplicated, stats.duplicates_removed)
       IN  rerun' = [deduplicated |-> r.deduplicated,
                     duplicates_removed |-> r.duplicates_removed]
    /\ pass' = 2
    /\ UNCHANGED <<stats, seen_contacts, deduplicated, contact, len_contacts, groups>>
    /\ UNCHANGED pipeVars /\ UNCHANGED cleanVars

NextDedup == DetectOne \/ DetectAgain

SpecDedup == Init /\ [][NextDedup]_vars

(***************************************************************************)
(* Properties of detect_duplicates (checked under SpecDedup).              *)
(***************************************************************************)
\* the step consumed one more record (contact')
Consumed == pass = 1 /\ len_contacts' = len_contacts + 1

\* the keys of a record that are in the mapping (before the step)
MatchingKeys(c) == {i \in DOMAIN key_parts(c) : key_parts(c)[i] \in DOMAIN seen_contacts}

\* the representative the record is compared with: that of its first matching key
Existing(c) ==
    seen_contacts[key_parts(c)[CHOOSE i \in MatchingKeys(c) :
                                   \A j \in MatchingKeys(c) : i <= j]]

\* the step replaced a representative by a strictly higher-scored record
Replaced ==
    /\ Consumed
    /\ MatchingKeys(contact') # {}
    /\ contact'.quality_score > Existing(contact').quality_score

FirstIndex(s, x) == CHOOSE i \in DOMAIN s : s[i] = x /\ \A j \in 1..(i - 1) : s[j] # x

C2_Idempotent ==
    pass = 2 =>
        /\ rerun.deduplicated = deduplicated
        /\ rerun.duplicates_removed = stats.duplicates_removed

\* C3: each duplicate group has exactly one record in the output (no two
\* output records share an identity key), and it is the group's highest-scored
\* record, the earliest-seen among equal scores.
C3_OnePerGroup ==
    /\ \A i, j \in DOMAIN deduplicated :
          i < j => Range(key_parts(deduplicated[i]))
                       \cap Range(key_parts(deduplicated[j])) = {}
    /\ \A g \in groups :
          LET members == {i \in DOMAIN deduplicated :
                             Range(key_parts(deduplicated[i])) \cap g.keys # {}}
          IN  /\ Cardinality(members) = 1
              /\ \A i \in members : deduplicated[i] = g.best

\* C6: duplicates_removed grows by exactly 1 for a record with at least one
\* key in the mapping, however many of its keys match, and by 0 for any other
\* record.
C6_CountedOnce ==
    [][Consumed =>
         stats'.duplicates_removed =
            stats.duplicates_removed
               + (IF MatchingKeys(contact') # {} THEN 1 ELSE 0)]_vars

\* C6 witness: the third record had keys mapped to the first and to the
\* second record, two different representatives, and was counted once
C6_Witness ==
    /\ len_contacts = 3
    /\ stats.duplicates_removed = 1
    /\ Len(deduplicated) = 2
    /\ Cardinality(groups) = 1
    /\ \E g \in groups : g.size = 3

\* C10: len(output) + the duplicates counted = len(input).
C10_Conservation ==
    Len(deduplicated) + stats.duplicates_removed = len_contacts

(***************************************************************************)
(* Properties of process_all_files (checked under Spec).                   *)
(***************************************************************************)
Returned == pc = "idle" /\ run >= 1

CountClass(cls) == Count(returned, LAMBDA c : c.classification = cls)

\* C4: after a second call on the same processor the counters describe the
\* second call's inputs only: they are what a fresh processor would hold.
C4_ResetPerRun ==
    (Returned /\ run = 2) =>
        /\ stats.total_processed = Len(all_contacts)
        /\ stats.duplicates_removed =
              detect_duplicates(all_contacts, 0).duplicates_removed
        /\ stats.business_contacts = CountClass("business")
        /\ stats.personal_contacts = CountClass("personal")

BelowThreshold(s) == \E i \in DOMAIN s : s[i].quality_score < MinQuality

\* C5: no record with quality_score below 0.3 is in the list
\* extract_contact_data returns, in the accumulated list, in the output of
\* detect_duplicates or in the list process_all_files returns.
C5_NoLowQuality ==
    /\ ~BelowThreshold(contacts)
    /\ ~BelowThreshold(all_contacts)
    /\ ~BelowThreshold(deduplicated)
    /\ ~BelowThreshold(returned)

\* C5 witness: a valid file with recognized columns gave no record (its rows
\* were below the threshold), and the call returned the record of another file
C5_Witness ==
    /\ Returned
    /\ last_file = "ok" /\ contacts = <<>>
    /\ Len(all_contacts) = 1 /\ Len(returned) = 1

\* C7: an unusable file (invalid, unreadable, or without any recognized
\* column) adds no record, leaves the counters alone and does not end the
\* loop: the next file is the next one of the list, and the loop is left, for
\* deduplication and classification, only when the list is exhausted.
C7_SkipAndContinue ==
    [][/\ (file_idx' = file_idx + 1 /\ last_file' \in {"invalid", "read_error", "no_columns"})
          => /\ all_contacts' = all_contacts
             /\ stats' = stats
             /\ pc' = "files"
             /\ n_files' = n_files
       /\ (pc = "files" /\ pc' = "classify")
          => /\ file_idx > n_files
             /\ deduplicated' = detect_duplicates(all_contacts, 0).deduplicated
       /\ (pc = "classify" /\ pc' = "idle")
          => Len(returned') = Len(deduplicated)]_vars

\* C7 witness: a call that met an unusable file went on to a usable one and
\* returned its records
C7_Witness ==
    /\ Returned
    /\ skipped >= 1
    /\ last_file = "ok"
    /\ Len(contacts) >= 1
    /\ returned # <<>>

\* the label the precedence gives
ExpectedLabel(c) ==
    IF c.organization # <<>> THEN "business"
    ELSE IF c.title # <<>> THEN "business"
    ELSE IF c.email_1 # <<>>
         THEN LET d == domain_of(lower(c.email_1))
              IN  IF d \in business_domains THEN "personal"
                  ELSE IF d # <<>> THEN "business" ELSE "other"
    ELSE "other"

Rep(c, n) == [i \in 1..n |-> c]

Leads == {<<>>, <<" ">>, <<"x", " ">>}

Tails == {<<>>, <<" ">>, <<" ", "b">>, <<"@", "b", ".", "c", "o">>, <<" ", ":", ":", ":", " ", "7">>, <<":", ":", ":", "c", "@", "d", ".", "o", "r", "g", " ">>}

\* short inputs, and inputs at and above the length caps
CleanInputs ==
    {NaN} \cup
    {lead \o Rep(ch, n) \o tail :
        lead \in Leads, ch \in {"a", "5"},
        n \in {0, 1, PhoneCap - 1, PhoneCap, TextCap - 1, TextCap},
        tail \in Tails}

CleanFns == {"clean_text", "clean_email", "clean_phone", "clean_url"}

apply_clean(f, x) ==
    CASE f = "clean_text" -> clean_text(x)
      [] f = "clean_email" -> clean_email(x)
      [] f = "clean_phone" -> clean_phone(x)
      [] f = "clean_url" -> clean_url(x)

Clean ==
    /\ clean_pass = 0
    /\ \E f \in CleanFns, x \in CleanInputs :
         /\ clean_fn' = f
         /\ clean_in' = x
         /\ clean_out' = apply_clean(f, x)
    /\ clean_pass' = 1
    /\ UNCHANGED <<stats, seen_contacts, deduplicated>>
    /\ UNCHANGED pipeVars /\ UNCHANGED dedupVars

CleanAgain ==
    /\ clean_pass = 1
    /\ clean_in' = clean_out
    /\ clean_out' = apply_clean(clean_fn, clean_out)
    /\ clean_pass' = 2
    /\ UNCHANGED <<clean_fn, stats, seen_contacts, deduplicated>>
    /\ UNCHANGED pipeVars /\ UNCHANGED dedupVars

NextClean == Clean \/ CleanAgain

SpecClean == Init /\ [][NextClean]_vars

CapOf(f) == IF f = "clean_phone" THEN PhoneCap ELSE TextCap

\* C9: for each normalizer f and every input x, f(f(x)) = f(x); the result of
\* one application is already trimmed and within the length cap.
C9_Idempotent ==
    /\ clean_pass >= 1 =>
          /\ strip(clean_out) = clean_out
          /\ Len(clean_out) <= CapOf(clean_fn)
    /\ clean_pass = 2 => clean_out = clean_in

====
